---- MODULE Spec2Model ----
(***************************************************************************)
(* A model of dendrocat's MasterCatalog (dendrocat/mastercatalog.py): the  *)
(* master table, the registry of frequency objects kept in the instance    *)
(* dictionary, and the methods grab, add_objects, add_sources, photometer  *)
(* and ffplot.  Every method call is one atomic action: the class is       *)
(* synchronous and single-threaded.  numpy and astropy behave as in the    *)
(* releases the code was written for (its own comments rely on them: a     *)
(* one-element list of a boolean mask indexes like the mask, indexing a    *)
(* scalar raises TypeError, Table.add_columns refuses columns whose length *)
(* differs from the table's).                                              *)
(***************************************************************************)
EXTENDS Integers, Sequences, FiniteSets, TLC

(* ------------------------------ bounds --------------------------------- *)
\* Largest number of rows the master table may grow to.
MaxRows == 3
\* Largest number of calls of the methods that write to the catalog
\* (add_objects, add_sources, photometer, ffplot) in one run.
MaxCalls == 2

(* ------------------------------ values --------------------------------- *)
\* A floating point value: a number, not-a-number, or plus infinity.
Num(n) == [k |-> "num", n |-> n]
NaN == [k |-> "nan", n |-> 0]
Inf == [k |-> "inf", n |-> 0]
IsNaN(v) == v.k = "nan"
IsInf(v) == v.k = "inf"

\* A table cell of a MaskedColumn: the stored value and its mask bit.
Cell(v) == [v |-> v, m |-> FALSE]
\* The cell vstack fills in where a stacked table lacks the column.
MissingCell == [v |-> Num(0), m |-> TRUE]

(* ------------------------ frequency objects ---------------------------- *)
FreqIds == {"f1", "f2"}
ApertureNames == {"ellipse", "annulus"}
Stats == <<"peak", "sum", "rms", "median", "npix">>

\* The RadioSource with a given freq_id (nu its frequency, ppbeam its
\* beam-coverage factor).
RadioSourceOf(f) ==
    IF f = "f1" THEN [freq_id |-> "f1", nu |-> 1, ppbeam |-> 2]
    ELSE [freq_id |-> "f2", nu |-> 2, ppbeam |-> 1]

\* What a source row's cutout looks like under an aperture.
PixelKinds == {"arr", "nan", "inf", "one"}

\* RadioSource.get_pixels(aperture, catalog, ...)[0][j]: the pixel set of one
\* row.  scalar: the extracted value is a bare scalar (a single pixel), not
\* an array.  The extraction is deterministic in (frequency, aperture, row).
\* Cutouts: "arr" finite pixels; "nan" a NaN pixel (the annulus is a single
\* NaN pixel); "inf" an infinite pixel; "one" an ellipse of a single pixel.
PixelsOf(rs, aperture, row) ==
    LET base == IF rs.freq_id = "f1" THEN 0 ELSE 2
    IN  CASE row.kind = "arr" ->
               [scalar |-> FALSE, px |-> <<Num(2 + base), Num(-2), Num(4)>>]
          [] row.kind = "nan" ->
               IF aperture = "ellipse"
               THEN [scalar |-> FALSE, px |-> <<Num(2), NaN, Num(4 + base)>>]
               ELSE [scalar |-> TRUE, px |-> <<NaN>>]
          [] row.kind = "inf" ->
               [scalar |-> FALSE, px |-> <<Num(2 + base), Inf>>]
          [] OTHER ->
               IF aperture = "ellipse"
               THEN [scalar |-> TRUE, px |-> <<Num(4 + base)>>]
               ELSE [scalar |-> FALSE, px |-> <<Num(2), Num(0)>>]

(* --------------------------- numpy helpers ----------------------------- *)
Range(s) == {s[i] : i \in 1..Len(s)}
AnyNaN(px) == \E i \in 1..Len(px) : IsNaN(px[i])
AnyInf(px) == \E i \in 1..Len(px) : IsInf(px[i])

RECURSIVE SumN(_)
SumN(s) == IF s = <<>> THEN 0 ELSE Head(s).n + SumN(Tail(s))

RECURSIVE SumSq(_)
SumSq(s) == IF s = <<>> THEN 0 ELSE Head(s).n * Head(s).n + SumSq(Tail(s))

ISqrt(n) == CHOOSE r \in 0..n : r * r <= n /\ (r + 1) * (r + 1) > n

\* v <= w in the order of floating point numbers (no NaN among them).
Leq(v, w) == IsInf(w) \/ (~IsInf(v) /\ v.n <= w.n)

\* np.max: NaN propagates.
NpMax(px) ==
    IF AnyNaN(px) THEN NaN
    ELSE CHOOSE v \in Range(px) : \A w \in Range(px) : Leq(w, v)

\* pix[pix > 0.]: NaN > 0 is False, so NaN pixels drop out.
IsPositive(v) == IsInf(v) \/ (v.k = "num" /\ v.n > 0)
Positive(px) == SelectSeq(px, IsPositive)

\* np.sum(...) / ppbeam (the pixel values of the model are multiples of
\* every ppbeam, so the quotient is exact).
NpSumOver(px, ppbeam) ==
    IF AnyInf(px) THEN Inf ELSE Num(SumN(px) \div ppbeam)

\* The k-th smallest element of px (k from 1).
KthSmallest(px, k) ==
    CHOOSE v \in Range(px) :
        /\ Cardinality({i \in 1..Len(px) : Leq(px[i], v) /\ px[i] # v}) < k
        /\ Cardinality({i \in 1..Len(px) : Leq(px[i], v)}) >= k

\* np.median: NaN propagates; the mean of the two middle values when the
\* length is even.
NpMedian(px) ==
    IF AnyNaN(px) THEN NaN
    ELSE LET n == Len(px)
             lo == KthSmallest(px, (n + 1) \div 2)
             hi == KthSmallest(px, (n \div 2) + 1)
         IN  IF IsInf(lo) \/ IsInf(hi) THEN Inf
             ELSE Num((lo.n + hi.n) \div 2)

\* utils.rms: the root mean square of the pixel array (integer part).
Rms(px) ==
    IF AnyNaN(px) THEN NaN
    ELSE IF AnyInf(px) THEN Inf
    ELSE Num(ISqrt(SumSq(px) \div Len(px)))

(* ------------------------------ tables --------------------------------- *)
\* A table is [rows, cols]: rows holds the reserved columns of each row
\* (_name, rejected, _index, and the source geometry that decides its
\* cutout), cols the photometry columns in table order, each a name and one
\* cell per row.
EmptyTable == [rows |-> <<>>, cols |-> <<>>]
HasCol(t, name) == \E i \in 1..Len(t.cols) : t.cols[i].name = name
ColOf(t, name) == t.cols[CHOOSE i \in 1..Len(t.cols) : t.cols[i].name = name]

\* seq[idx] for a list of positions.
Take(seq, idx) == [i \in 1..Len(idx) |-> seq[idx[i]]]
\* The positions 1..n that lie in the set keep, ascending.
Positions(n, keep) == SelectSeq([i \in 1..n |-> i], LAMBDA i : i \in keep)

\* table[index]: the rows at the given positions, every column cut alike.
TableTake(t, idx) ==
    [rows |-> Take(t.rows, idx),
     cols |-> [c \in 1..Len(t.cols) |->
                 [name |-> t.cols[c].name, data |-> Take(t.cols[c].data, idx)]]]

\* catalog[catalog['rejected'] == 0]
NonRejected(t) ==
    TableTake(t, Positions(Len(t.rows),
                           {i \in 1..Len(t.rows) : t.rows[i].rejected = 0}))

\* '{freq_id}_{aperture}_{stat}'
ColName(freq_id, aperture, stat) == <<freq_id, aperture, stat>>

(* ------------------------- add_sources --------------------------------- *)
\* vstack([catalog, sources]): the rows of catalog, then those of sources;
\* a column sources lacks is filled with masked cells.
Vstack(t, sources) ==
    [rows |-> t.rows \o sources,
     cols |-> [c \in 1..Len(t.cols) |->
                 [name |-> t.cols[c].name,
                  data |-> t.cols[c].data \o
                           [j \in 1..Len(sources) |-> MissingCell]]]]

\* add_sources without its second statement: the stacked rows keep the
\* _index they came with.
ReindexSkipped(t) == t

\* catalog['_index'] = range(len(catalog))
Reindex(t) ==
    [t EXCEPT !.rows = [i \in 1..Len(t.rows) |->
                          [t.rows[i] EXCEPT !.index = i - 1]]]

\* The loop of add_sources over its arguments.
RECURSIVE AddSourcesLoop(_, _)
AddSourcesLoop(t, args) ==
    IF args = <<>> THEN t
    ELSE AddSourcesLoop(Reindex(Vstack(t, Head(args))), Tail(args))

(* --------------------------- photometer -------------------------------- *)
\* Does len(pix_in_aperture[j]) raise TypeError?  It is reached when the
\* pixel set holds no NaN, and a scalar has no len().
NpixRaises(pix) == pix.scalar /\ ~AnyNaN(pix.px)

\* The five statistics of one row's pixel set, in the order of Stats.
RowStats(pix, ppbeam) ==
    <<NpMax(pix.px),
      IF pix.scalar THEN NaN ELSE NpSumOver(Positive(pix.px), ppbeam),
      Rms(pix.px),
      NpMedian(pix.px),
      IF AnyNaN(pix.px) THEN NaN ELSE Num(Len(pix.px))>>

\* The extraction and the statistics depend on the frequency object, the
\* aperture and the row's cutout alone: computed once for each.
Extracted[f \in FreqIds, a \in ApertureNames, k \in PixelKinds] ==
    LET pix == PixelsOf(RadioSourceOf(f), a, [kind |-> k])
    IN  [raises |-> NpixRaises(pix),
         stats |-> RowStats(pix, RadioSourceOf(f).ppbeam)]

\* The five MaskedColumns built from the pixel sets of the rows of source.
NewColumns(rs, aperture, source) ==
    [s \in 1..Len(Stats) |->
       [name |-> ColName(rs.freq_id, aperture, Stats[s]),
        data |-> [j \in 1..Len(source) |->
                    Cell(Extracted[rs.freq_id, aperture,
                                   source[j].kind].stats[s])]]]

StatNames(rs, aperture) ==
    {ColName(rs.freq_id, aperture, Stats[s]) : s \in 1..Len(Stats)}

\* photometer without remove_columns: the old columns stay.
RemoveColumnsSkipped(t, names) == t

\* self.catalog.remove_columns(names), KeyError passed over: the columns go
\* when all of them are there, and nothing changes otherwise.
RemoveColumns(t, names) ==
    IF \A n \in names : HasCol(t, n)
    THEN [t EXCEPT !.cols = SelectSeq(t.cols, LAMBDA c : c.name \notin names)]
    ELSE t

\* self.catalog.add_columns([...])
AddColumns(t, newcols) == [t EXCEPT !.cols = t.cols \o newcols]

\* "Mask NaN values": every cell of every column whose value is NaN is
\* masked; no mask is ever cleared.
MaskNaN(t) ==
    [t EXCEPT !.cols =
       [c \in 1..Len(t.cols) |->
          [name |-> t.cols[c].name,
           data |-> [j \in 1..Len(t.cols[c].data) |->
                       [t.cols[c].data[j] EXCEPT
                          !.m = @ \/ IsNaN(t.cols[c].data[j].v)]]]]]

\* One pass of the inner loop of photometer: one frequency object and one
\* aperture, reading the rows of source and writing the master table t.
PhotometerOne(t, rs, aperture, source) ==
    IF \E j \in 1..Len(source) :
          Extracted[rs.freq_id, aperture, source[j].kind].raises
    THEN [table |-> t, status |-> "TypeError"]
    ELSE LET removed == RemoveColumns(t, StatNames(rs, aperture))
         IN  IF Len(source) # Len(t.rows)
             THEN [table |-> removed, status |-> "ValueError"]
             ELSE [table |-> MaskNaN(AddColumns(removed,
                                       NewColumns(rs, aperture, source))),
                   status |-> "ok"]

\* The loop over the frequency objects found in the instance dictionary.
RECURSIVE PhotometerObjects(_, _, _, _)
PhotometerObjects(t, objs, aperture, source) ==
    IF objs = <<>> THEN [table |-> t, status |-> "ok"]
    ELSE LET r == PhotometerOne(t, RadioSourceOf(Head(objs)), aperture,
                                IF source = <<>> THEN t.rows ELSE source)
         IN  IF r.status # "ok" THEN r
             ELSE PhotometerObjects(r.table, Tail(objs), aperture, source)

\* photometer(*args, catalog=source): the loop over the apertures.  source
\* is <<>> for catalog=None, which reads the master table itself.
RECURSIVE Photometer(_, _, _, _)
Photometer(t, objs, apertures, source) ==
    IF apertures = <<>> THEN [table |-> t, status |-> "ok"]
    ELSE LET r == PhotometerObjects(t, objs, Head(apertures), source)
         IN  IF r.status # "ok" THEN r
             ELSE Photometer(r.table, objs, Tail(apertures), source)

(* ------------------------- names and attributes ------------------------ *)
\* The names bound at module level: the imports and the class itself.
ModuleGlobals ==
    {"MaskedColumn", "vstack", "hstack", "Table", "OrderedDict", "np", "u",
     "deepcopy", "plt", "gs", "matplotlib", "SkyCoord", "Angle", "rms",
     "specindex", "ucheck", "RadioSource", "Aperture", "MasterCatalog"}

\* The methods the class MasterCatalog defines.
MasterCatalogMethods ==
    {"__init__", "grab", "add_objects", "add_sources", "photometer", "ffplot"}

\* An attribute key of an instance dictionary, cut at its underscores:
\* 'radiosource_f1' is <<"radiosource", "f1">>.
ObjPrefix == "radiosource"
ObjKey(freq_id) == <<ObjPrefix, freq_id>>
\* key.split('_')[0]
SplitHead(key) == key[1]

\* The keys of a catalog's instance dictionary, in insertion order: what
\* __init__ assigns, then the registered frequency objects.
DictKeys(objs) ==
    <<(<<"catalog">>), (<<"nonrejected">>)>> \o
    [i \in 1..Len(objs) |-> ObjKey(objs[i])]

\* Is self.<attr> set on a catalog whose frequency objects are objs?
HasAttr(objs, attr) == attr \in Range(DictKeys(objs)) 

(* ---------------------------- add_objects ------------------------------ *)
\* self.__dict__[obj_prefix + freq_id] = obj: a new key goes last, a key
\* already there keeps its place.
Register(objs, freq_id) ==
    IF freq_id \in Range(objs) THEN objs ELSE Append(objs, freq_id)

\* The loop over the keys of another MasterCatalog's dictionary: obj[key]
\* needs MasterCatalog.__getitem__.
RECURSIVE ImportKeys(_, _)
ImportKeys(objs, keys) ==
    IF keys = <<>> THEN [objs |-> objs, status |-> "ok"]
    ELSE IF SplitHead(Head(keys)) = ObjPrefix
         THEN IF "__getitem__" \in MasterCatalogMethods
              THEN ImportKeys(Register(objs, Head(keys)[2]), Tail(keys))
              ELSE [objs |-> objs, status |-> "TypeError"]
         ELSE ImportKeys(objs, Tail(keys))

\* The loop of add_objects over its arguments.
RECURSIVE AddObjectsLoop(_, _)
AddObjectsLoop(objs, args) ==
    IF args = <<>> THEN [objs |-> objs, status |-> "ok"]
    ELSE IF Head(args).cls = "MasterCatalog"
         THEN LET r == ImportKeys(objs, DictKeys(Head(args).objs))
              IN  IF r.status # "ok" THEN r
                  ELSE AddObjectsLoop(r.objs, Tail(args))
         ELSE AddObjectsLoop(Register(objs, Head(args).freq_id), Tail(args))

(* -------------------------------- grab --------------------------------- *)
\* The local names of grab.
GrabLocals == {"self", "name", "skip_rejects", "catalog", "indices", "i"}

\* grab(name, skip_rejects): arg.list tells a list or tuple of names from a
\* single name, arg.names holds the name(s).
Grab(t, objs, arg, skip_rejects) ==
    IF skip_rejects /\ ~HasAttr(objs, <<"accepted">>)
    THEN [table |-> EmptyTable, status |-> "AttributeError"]
    ELSE IF arg.list
         THEN IF Len(t.rows) > 0 /\ "names" \notin GrabLocals \cup ModuleGlobals
              THEN [table |-> EmptyTable, status |-> "NameError"]
              ELSE [table |-> TableTake(t,
                                Positions(Len(t.rows),
                                  {i \in 1..Len(t.rows) :
                                     t.rows[i].name \in Range(arg.names)})),
                    status |-> "ok"]
         ELSE [table |-> TableTake(t,
                           Positions(Len(t.rows),
                             {i \in 1..Len(t.rows) :
                                t.rows[i].name = arg.names[1]})),
               status |-> "ok"]

(* ------------------------------- ffplot -------------------------------- *)
\* The required columns: rms and peak-or-sum of every aperture at both
\* frequencies.
RequiredCols(f1, f2, apertures, peak) ==
    UNION {{ColName(f1, a, "rms"), ColName(f2, a, "rms"),
            ColName(f1, a, IF peak THEN "peak" ELSE "sum"),
            ColName(f2, a, IF peak THEN "peak" ELSE "sum")} : a \in apertures}

\* set(range(len(catalog))) ^ set(masked rows).union(set(rejected rows)),
\* as 1-based positions.
RowFilter(t, cols) ==
    LET all == 1..Len(t.rows)
        masked == {i \in all : \E c \in cols : ColOf(t, c).data[i].m}
        rejected == {i \in all : t.rows[i].rejected = 1}
        drop == masked \cup rejected
    IN  (all \ drop) \cup (drop \ all)

\* photometer(aperture) for each aperture in turn, stopping at a raise.
RECURSIVE PhotometerEach(_, _, _)
PhotometerEach(t, objs, apertures) ==
    IF apertures = {} THEN [table |-> t, status |-> "ok"]
    ELSE LET a == CHOOSE x \in apertures : TRUE
             r == Photometer(t, objs, <<a>>, <<>>)
         IN  IF r.status # "ok" THEN r
             ELSE PhotometerEach(r.table, objs, apertures \ {a})

\* The row filter of ffplot and catalog = catalog[index]; a required
\* column the table lacks raises KeyError.  photometer tells whether
\* photometer was run before (1) or not (0).
FilterRows(t, cols, photometer) ==
    IF \A c \in cols : HasCol(t, c)
    THEN [table |-> t,
          kept |-> TableTake(t, Positions(Len(t.rows), RowFilter(t, cols))),
          status |-> "ok", photometer |-> photometer]
    ELSE [table |-> t, kept |-> EmptyTable, status |-> "KeyError",
          photometer |-> photometer]

\* The except KeyError branch, after its photometer calls returned r: a
\* raise of photometer goes to the caller, and so does a second KeyError.
RetryFilter(r, cols) ==
    IF r.status # "ok"
    THEN [table |-> r.table, kept |-> EmptyTable, status |-> r.status,
          photometer |-> 1]
    ELSE FilterRows(r.table, cols, 1)

\* The first try of the row filter, and the except branch when it raises.
TryFilter(t, objs, apertures, cols) ==
    IF \A c \in cols : HasCol(t, c)
    THEN FilterRows(t, cols, 0)
    ELSE RetryFilter(PhotometerEach(t, objs, apertures), cols)

\* ffplot up to catalog = catalog[index] (what follows draws the figure):
\* the master table it leaves, the rows it keeps, and how it ends.  The
\* names ellipse and annulus are looked up in the module's globals.
Ffplot(t, objs, apertures, peak, f1, f2) ==
    IF ~({"ellipse", "annulus"} \subseteq ModuleGlobals)
    THEN [table |-> t, kept |-> EmptyTable, status |-> "NameError",
          photometer |-> 0]
    ELSE TryFilter(t, objs, apertures \cup {"ellipse", "annulus"},
                   RequiredCols(f1, f2, apertures \cup {"ellipse", "annulus"},
                                peak))

(* ------------------------------- inputs -------------------------------- *)
\* The source rows the callers draw from.  A stacked table brings its own
\* _index column, which counts from 0.
SourceRows ==
    { [name |-> "a", rejected |-> 0, index |-> 0, kind |-> "arr"],
      [name |-> "b", rejected |-> 1, index |-> 0, kind |-> "inf"],
      [name |-> "c", rejected |-> 0, index |-> 0, kind |-> "nan"],
      [name |-> "d", rejected |-> 0, index |-> 0, kind |-> "one"] }

\* The sequences over S of length lo..hi.
SeqsOf(S, lo, hi) == UNION {[1..n -> S] : n \in lo..hi}

\* The argument lists of add_sources: one table of source rows or two, of
\* at most cap rows together.
TableLists(cap) ==
    {<<t>> : t \in SeqsOf(SourceRows, 1, cap)} \cup
    {<<t, u>> : t \in SeqsOf(SourceRows, 1, cap - 1),
                u \in SeqsOf(SourceRows, 1, cap - 1)}

RECURSIVE TotalLen(_)
TotalLen(ts) == IF ts = <<>> THEN 0 ELSE Len(Head(ts)) + TotalLen(Tail(ts))

\* The argument lists of photometer: one aperture, or both.
ApertureLists == {<<"ellipse">>, <<"annulus">>, <<"ellipse", "annulus">>}

\* The objects add_objects is handed: RadioSources, and other
\* MasterCatalogs holding no frequency object or one.
RadioSourceArgs == {[cls |-> "RadioSource", freq_id |-> f] : f \in FreqIds}
MasterCatalogArgs ==
    {[cls |-> "MasterCatalog", objs |-> o] : o \in {<<>>, <<"f2">>}}
\* Its argument lists: one object, or a RadioSource and then another
\* object.
ObjectLists ==
    {<<o>> : o \in RadioSourceArgs \cup MasterCatalogArgs} \cup
    {<<[cls |-> "RadioSource", freq_id |-> "f1"], o>> :
        o \in {[cls |-> "RadioSource", freq_id |-> "f2"],
                [cls |-> "MasterCatalog", objs |-> <<"f2">>]}}

\* The names grab is asked for: one name, or a list of names.
GrabArgs ==
    {[list |-> FALSE, names |-> <<"b">>]} \cup
    {[list |-> TRUE, names |-> <<"b", "a">>]}

\* The tables photometer is handed as catalog=: the last rows of the
\* master table (the newly stacked ones), down to all of them.
Suffixes(rows) == {SubSeq(rows, i, Len(rows)) : i \in 1..Len(rows)}

(* ------------------------------- state --------------------------------- *)
VARIABLES
    catalog,      \* self.catalog: the master table
    nonrejected,  \* self.nonrejected
    objs,         \* the freq_ids of self.radiosource_*, in dictionary order
    ret,          \* the last call: its name, arguments, outcome and result
                  \* (of photometer also: does it repeat the call before?)
    calls         \* the number of writing calls made so far

vars == <<catalog, nonrejected, objs, ret, calls>>

\* The state after MasterCatalog(*args, catalog=table): table holds one or
\* more source rows, indexed by position, without photometry columns; args
\* are RadioSources (__init__ hands them to add_objects).
Init ==
    /\ \E rows \in SeqsOf(SourceRows, 1, 2) :
          catalog = [rows |-> [i \in 1..Len(rows) |->
                                 [rows[i] EXCEPT !.index = i - 1]],
                     cols |-> <<>>]
    /\ nonrejected = NonRejected(catalog)
    /\ \E args \in SeqsOf(RadioSourceArgs, 0, 2) :
          objs = AddObjectsLoop(<<>>, args).objs
    /\ ret = [op |-> "__init__", status |-> "ok"]
    /\ calls = 0

(* ------------------------------ actions -------------------------------- *)
add_objects ==
    /\ calls < MaxCalls
    /\ calls' = calls + 1
    /\ \E args \in ObjectLists :
        LET r == AddObjectsLoop(objs, args)
        IN  /\ objs' = r.objs
            /\ ret' = [op |-> "add_objects", args |-> args,
                       status |-> r.status]
            /\ UNCHANGED <<catalog, nonrejected>>

add_sources ==
    /\ calls < MaxCalls
    /\ calls' = calls + 1
    /\ \E args \in TableLists(MaxRows - Len(catalog.rows)) :
        /\ Len(catalog.rows) + TotalLen(args) <= MaxRows
        /\ catalog' = AddSourcesLoop(catalog, args)
        /\ ret' = [op |-> "add_sources", args |-> args, status |-> "ok"]
        /\ UNCHANGED <<nonrejected, objs>>

photometer ==
    /\ calls < MaxCalls
    /\ calls' = calls + 1
    /\ \E apertures \in ApertureLists,
       source \in {<<>>} \cup Suffixes(catalog.rows) :
        LET r == Photometer(catalog, objs, apertures, source)
        IN  /\ catalog' = r.table
            /\ ret' = [op |-> "photometer", apertures |-> apertures,
                       source |-> source, status |-> r.status,
                       repeat |-> /\ ret.op = "photometer"
                                  /\ ret.apertures = apertures
                                  /\ ret.source = source]
            /\ UNCHANGED <<nonrejected, objs>>

grab ==
    \E arg \in GrabArgs, skip_rejects \in BOOLEAN :
        LET r == Grab(catalog, objs, arg, skip_rejects)
        IN  /\ ret' = [op |-> "grab", name |-> arg,
                       skip_rejects |-> skip_rejects, status |-> r.status,
                       table |-> r.table]
            /\ UNCHANGED <<catalog, nonrejected, objs, calls>>

ffplot ==
    /\ calls < MaxCalls
    /\ calls' = calls + 1
    /\ \E pair \in {<<"f1", "f2">>, <<"f2", "f1">>},
       apertures \in {{"ellipse"}}, peak \in BOOLEAN :
        LET rsobj1 == pair[1]
            rsobj2 == pair[2]
        IN
        LET swap == RadioSourceOf(rsobj1).nu > RadioSourceOf(rsobj2).nu
            f1 == IF swap THEN rsobj2 ELSE rsobj1
            f2 == IF swap THEN rsobj1 ELSE rsobj2
            r == Ffplot(catalog, objs, apertures, peak, f1, f2)
        IN  /\ catalog' = r.table
            /\ ret' = [op |-> "ffplot", rsobj1 |-> rsobj1, rsobj2 |-> rsobj2,
                       apertures |-> apertures, peak |-> peak,
                       status |-> r.status, photometer |-> r.photometer,
                       table |-> r.kept]
            /\ UNCHANGED <<nonrejected, objs>>

Next == add_objects \/ add_sources \/ photometer \/ grab \/ ffplot

Spec == Init /\ [][Next]_vars

\* The calls that write the master table or the registry, without the
\* two that read them.
NextTable == add_objects \/ add_sources \/ photometer

SpecTable == Init /\ [][NextTable]_vars

(* ------------------------------- claims -------------------------------- *)
\* One list of all the rows of a list of tables, in order.
RECURSIVE Concat(_)
Concat(ts) == IF ts = <<>> THEN <<>> ELSE Head(ts) \o Concat(Tail(ts))

\* A row without its _index.
Source(row) == [name |-> row.name, rejected |-> row.rejected,
                kind |-> row.kind]

\* The step just taken is a call of the method op.
Called(op) == calls' = calls + 1 /\ ret'.op = op

\* No two columns of t share a name.
NoDuplicateColumns(t) ==
    \A i, j \in 1..Len(t.cols) : t.cols[i].name = t.cols[j].name => i = j

\* C3: every add_sources call leaves the master table holding the rows it
\* held (their photometry cells too), followed by the rows of the appended
\* tables in order: N rows and M rows give N + M, and the row at position i
\* has _index i, for i = 0..N+M-1.
C3_AddSourcesStacksInOrder ==
    [][Called("add_sources") =>
         LET n == Len(catalog.rows)
             added == Concat(ret'.args)
         IN  /\ Len(catalog'.rows) = n + Len(added)
             /\ \A i \in 1..n :
                   /\ Source(catalog'.rows[i]) = Source(catalog.rows[i])
                   /\ \A c \in 1..Len(catalog.cols) :
                         catalog'.cols[c].data[i] = catalog.cols[c].data[i]
             /\ \A j \in 1..Len(added) :
                   Source(catalog'.rows[n + j]) = Source(added[j])
             /\ \A i \in 1..Len(catalog'.rows) :
                   catalog'.rows[i].index = i - 1]_vars

\* An add_sources call that stacked two tables onto a table that already
\* had photometry columns.
C3_Witness ==
    /\ ret.op = "add_sources"
    /\ Len(ret.args) = 2
    /\ Len(catalog.rows) = 3
    /\ Len(catalog.cols) > 0

\* C2: a photometer call that repeats the call before it (same apertures,
\* same catalog= argument, same frequency objects) ends as that call ended
\* and leaves the master table as that call left it: the same columns in
\* the same order with the same values and masks, none of them twice; and
\* when it completes, the five columns of every (freq_id, aperture) pair are
\* there.
C2_PhotometerTwiceIsOnce ==
    [][Called("photometer") /\ ret'.repeat =>
         /\ catalog' = catalog
         /\ ret'.status = ret.status
         /\ NoDuplicateColumns(catalog')
         /\ ret'.status = "ok" =>
               \A f \in Range(objs), a \in Range(ret'.apertures) :
                  \A n \in StatNames(RadioSourceOf(f), a) :
                     Cardinality({c \in 1..Len(catalog'.cols) :
                                     catalog'.cols[c].name = n}) = 1]_vars

\* A completed photometer call over two frequency objects that repeats the
\* call before it, on a table with a masked cell.
C2_Witness ==
    /\ ret.op = "photometer"
    /\ ret.repeat
    /\ ret.status = "ok"
    /\ ret.source = <<>>
    /\ Len(objs) = 2
    /\ \E c \in 1..Len(catalog.cols) :
          \E j \in 1..Len(catalog.rows) : catalog.cols[c].data[j].m

\* The rows of t at the positions in keep, as a table.
RowsAt(t, keep) == TableTake(t, Positions(Len(t.rows), keep))

\* C4: grab returns exactly the rows whose _name is the name asked for, or
\* one of the names asked for, and that are not rejected when skip_rejects
\* is set; for a single name and for a list, with and without skip_rejects.
C4_GrabReturnsMatchingRows ==
    ret.op = "grab" =>
       /\ ret.status = "ok"
       /\ ret.table =
             RowsAt(catalog,
                    {i \in 1..Len(catalog.rows) :
                        /\ catalog.rows[i].name \in Range(ret.name.names)
                        /\ ret.skip_rejects => catalog.rows[i].rejected = 0})

\* The frequency objects an argument of add_objects brings.
Brings(obj) ==
    IF obj.cls = "MasterCatalog" THEN Range(obj.objs) ELSE {obj.freq_id}

\* C5: add_objects handed another MasterCatalog completes, leaves the
\* catalog registered with its own frequency objects and the other's, and
\* leaves the row table as it was.
C5_MergeUnionsObjects ==
    [][(Called("add_objects") /\
        \E i \in 1..Len(ret'.args) : ret'.args[i].cls = "MasterCatalog") =>
         /\ ret'.status = "ok"
         /\ Range(objs') =
               Range(objs) \cup
               UNION {Brings(ret'.args[i]) : i \in 1..Len(ret'.args)}
         /\ catalog' = catalog]_vars

\* The cell of row j in the column of statistic stat for (f, a).
CellOf(t, f, a, stat, j) == ColOf(t, ColName(f, a, stat)).data[j]

\* C6: photometer over a table with a row whose extracted pixel set is a
\* single scalar pixel completes, and writes for that row a masked sum and
\* an unmasked peak and median equal to the pixel's value.
C6_SinglePixelSumMasked ==
    (ret.op = "photometer" /\ ret.source = <<>>) =>
       \A f \in Range(objs), a \in Range(ret.apertures) :
          \A j \in 1..Len(catalog.rows) :
             LET pix == PixelsOf(RadioSourceOf(f), a, catalog.rows[j])
             IN  pix.scalar =>
                    /\ ret.status = "ok"
                    /\ CellOf(catalog, f, a, "sum", j).m
                    /\ CellOf(catalog, f, a, "peak", j) = Cell(pix.px[1])
                    /\ CellOf(catalog, f, a, "median", j) = Cell(pix.px[1])

\* C7: after a photometer call that completes, the npix cell of every row
\* and every (frequency, aperture) pair is masked when a pixel of the row's
\* set is NaN or infinite, and is otherwise unmasked and the number of
\* pixels.
C7_NpixMaskedIfNonFinite ==
    (ret.op = "photometer" /\ ret.source = <<>> /\ ret.status = "ok") =>
       \A f \in Range(objs), a \in Range(ret.apertures) :
          \A j \in 1..Len(catalog.rows) :
             LET pix == PixelsOf(RadioSourceOf(f), a, catalog.rows[j])
                 cell == CellOf(catalog, f, a, "npix", j)
             IN  IF AnyNaN(pix.px) \/ AnyInf(pix.px)
                 THEN cell.m
                 ELSE cell = Cell(Num(Len(pix.px)))

\* C9: the accepted view is at all times the rows of the master table with
\* rejected == 0, with the table's columns, and grab with skip_rejects set
\* reads it.
C9_AcceptedViewIsCurrent ==
    /\ nonrejected = NonRejected(catalog)
    /\ (ret.op = "grab" /\ ret.skip_rejects) => ret.status = "ok"

\* C10: photometer handed a table of fewer rows than the master table
\* completes and leaves every (frequency, aperture) pair's five columns in
\* the master table, one cell for each row; no column the table had is
\* missing afterwards.
C10_SubsetPhotometerKeepsColumns ==
    [][(Called("photometer") /\ ret'.source # <<>> /\
        Len(ret'.source) < Len(catalog.rows)) =>
         /\ ret'.status = "ok"
         /\ \A f \in Range(objs), a \in Range(ret'.apertures) :
               \A n \in StatNames(RadioSourceOf(f), a) :
                  /\ HasCol(catalog', n)
                  /\ Len(ColOf(catalog', n).data) = Len(catalog'.rows)
         /\ \A c \in 1..Len(catalog.cols) :
               HasCol(catalog', catalog.cols[c].name)]_vars

\* The columns ffplot requires of a call's arguments (every call includes
\* both apertures).
Required(r) ==
    RequiredCols("f1", "f2", r.apertures \cup {"ellipse", "annulus"}, r.peak)

\* C1: ffplot over two registered frequency objects keeps exactly the rows
\* that are not rejected and have no required column masked.
C1_FfplotKeepsGoodRows ==
    (ret.op = "ffplot" /\ {"f1", "f2"} \subseteq Range(objs)) =>
       /\ ret.status = "ok"
       /\ ret.table =
             RowsAt(catalog,
                    {i \in 1..Len(catalog.rows) :
                        /\ catalog.rows[i].rejected = 0
                        /\ \A c \in Required(ret) :
                              ~ColOf(catalog, c).data[i].m})

\* C8: ffplot called while a required column is absent runs photometer
\* once and tries the row filter again: with the columns then present it
\* goes on with the updated table, and with a column still absent it ends
\* in a KeyError.
C8_FfplotRetriesOnce ==
    [][(Called("ffplot") /\
        \E c \in Required(ret') : ~HasCol(catalog, c)) =>
         /\ ret'.photometer = 1
         /\ IF \A c \in Required(ret') : HasCol(catalog', c)
            THEN ret'.status = "ok"
            ELSE ret'.status = "KeyError"]_vars

====
